---- MODULE Spec2Model ----
(***************************************************************************)
(* Model of src/fintech-rag/api/app.py: the message renderers, the two     *)
(* response handlers (stream and invoke), AgentQueryProcessor, the three   *)
(* query entry points and set_response_handler with the two module-level   *)
(* globals response_handler and query_processor.                           *)
(***************************************************************************)
EXTENDS Integers, Sequences, FiniteSets, TLC

\* ------------------------------------------------------------------ bounds
\* Longest event sequence one agent.stream() call yields in Spec.
MaxEvents == 3
\* Longest event sequence one agent.stream() call yields in SpecConc.
MaxConcEvents == 1
\* Number of requests in SpecConc.
NConc == 1
\* Number of requests in all (the requests of SpecIso).
NReq == 2
\* Number of set_response_handler calls in SpecConc.
NSetters == 2

Requests == 1..NReq
ConcRequests == 1..NConc
Setters == 1..NSetters

\* ------------------------------------------------------- optional values
\* Python's None is <<>>, a present value v is <<v>>.
None == <<>>
Some(v) == <<v>>

\* ------------------------------------------------------------- messages
\* A langchain message: AIMessage ("ai"), ToolMessage ("tool") or any other
\* message ("human").  tool_calls is a sequence of tool names.
Msg(type, content, tool_calls) ==
    [type |-> type, content |-> content, tool_calls |-> tool_calls]

\* A token of the "messages" stream mode: an AIMessageChunk ("chunk") or
\* some other message object ("tool").
Token(type, text, tool_call_chunks) ==
    [type |-> type, text |-> text, tool_call_chunks |-> tool_call_chunks]

RECURSIVE JoinNames(_)
JoinNames(names) ==
    IF names = <<>> THEN ""
    ELSE IF Len(names) = 1 THEN "'" \o names[1] \o "'"
    ELSE "'" \o names[1] \o "', " \o JoinNames(Tail(names))

\* str() of a Python list of tool calls / tool call chunks.
StrList(names) == "[" \o JoinNames(names) \o "]"

\* str() of a message that is neither an AIMessage nor a ToolMessage.
StrMessage(message) == "content='" \o message.content \o "'"

\* app.py:78-83
_render_message_chunk(token) ==
    IF token.text # "" THEN token.text
    ELSE IF token.tool_call_chunks # <<>> THEN StrList(token.tool_call_chunks)
    ELSE ""

\* app.py:85-92
_render_completed_message(message) ==
    IF message.type = "ai"
    THEN IF message.tool_calls # <<>>
         THEN "Tool Calls: " \o StrList(message.tool_calls)
         ELSE message.content
    ELSE IF message.type = "tool"
    THEN "Tool Result: " \o message.content
    ELSE StrMessage(message)

\* ------------------------------------------------------- response models
\* app.py:100-102
StepInfo(step, message) == [step |-> step, message |-> message]

\* app.py:104-106
StreamModeInfo(stream_mode, steps) == [stream_mode |-> stream_mode, steps |-> steps]

\* app.py:108-111 ; error is None or Some(text)
QueryResponse(response, streamModes, error) ==
    [response |-> response, streamModes |-> streamModes, error |-> error]

\* ---------------------------------------------------------- stream events
\* "messages" mode: the chunk is a (token, metadata) pair (shape "pair") or
\* something that does not unpack into two values (shape "bad").
TokenEv(shape, token) == [mode |-> "messages", shape |-> shape, token |-> token]

\* A node's state snapshot in an "updates" chunk: a dict that may hold a
\* "messages" list (shape "dict") or None (shape "none").
Snapshot(has_messages, messages) ==
    [shape |-> "dict", has_messages |-> has_messages, messages |-> messages]
NoneSnapshot == [shape |-> "none", has_messages |-> FALSE, messages |-> <<>>]

\* "updates" mode: items is the chunk dict in its own iteration order, a
\* sequence of <<node_name, data>>.
UpdatesEv(items) == [mode |-> "updates", items |-> items]

\* "custom" mode: the chunk is whatever the stream writer was given.
CustomEv(isstr, text) == [mode |-> "custom", isstr |-> isstr, text |-> text]

\* An event tagged with a mode the handler has no branch for.
OtherEv == [mode |-> "values"]

\* str(chunk) of a custom chunk: a str is itself, anything else its repr.
StrChunk(ev) == IF ev.isstr THEN ev.text ELSE "{'data': '" \o ev.text \o "'}"

\* ------------------------------------------------ StreamResponseHandler
\* The keys as `sorted(modes_map.items())` would visit them.
ModeOrderSorted == <<"custom", "messages", "updates">>

\* app.py:127-131, the keys of modes_map in dict (insertion) order.
ModeOrder == <<"messages", "updates", "custom">>

\* app.py:127-132, the local state of one handle_response call.  raised is
\* None while the loop body has not raised, else Some(str(exception)).
NewDrain ==
    [modes_map |-> [messages |-> <<>>, updates |-> <<>>, custom |-> <<>>],
     final_response |-> "",
     raised |-> None]

\* app.py:140 without the guard.
KeepAnyToken(content) == TRUE

\* app.py:140, `if content:` guarding the append of a token step.
KeepToken(content) == content # ""

\* app.py:138-141 without the isinstance test of app.py:138.
OnMessagesAnyKind(d, ev) ==
    IF ev.shape # "pair"
    THEN [d EXCEPT !.raised = Some("not enough values to unpack (expected 2, got 1)")]
    ELSE IF KeepToken(_render_message_chunk(ev.token))
         THEN [d EXCEPT !.modes_map.messages =
                   Append(@, StepInfo("Token", _render_message_chunk(ev.token)))]
         ELSE d

\* app.py:141 as it would be with `insert(0, ...)` in place of `append`.
OnMessagesPrepend(d, ev) ==
    IF ev.shape # "pair"
    THEN [d EXCEPT !.raised = Some("not enough values to unpack (expected 2, got 1)")]
    ELSE IF ev.token.type = "chunk" /\ KeepToken(_render_message_chunk(ev.token))
         THEN [d EXCEPT !.modes_map.messages =
                   <<StepInfo("Token", _render_message_chunk(ev.token))>> \o @]
         ELSE d

\* app.py:137-141, one "messages" event.
OnMessages(d, ev) ==
    IF ev.shape # "pair"
    THEN [d EXCEPT !.raised = Some("not enough values to unpack (expected 2, got 1)")]
    ELSE IF ev.token.type = "chunk" /\ KeepToken(_render_message_chunk(ev.token))
         THEN [d EXCEPT !.modes_map.messages =
                   Append(@, StepInfo("Token", _render_message_chunk(ev.token)))]
         ELSE d

\* app.py:145, `"messages" in data and len(data["messages"]) > 0`.
HasMessages(data) == data.has_messages /\ Len(data.messages) > 0

\* app.py:150, the test that makes a last message the answer candidate.
IsFinalAnswer(last_message) ==
    last_message.type = "ai" /\ last_message.tool_calls = <<>>

\* app.py:150-151 as a first-qualifying-answer-wins policy would have it.
TrackFirst(final_response, last_message, content) ==
    IF IsFinalAnswer(last_message) /\ final_response = ""
    THEN content ELSE final_response

\* app.py:150-151 without the `not last_message.tool_calls` test.
TrackAnyAI(final_response, last_message, content) ==
    IF last_message.type = "ai" THEN content ELSE final_response

\* app.py:150-151, the answer candidate after one (node_name, data) pair.
TrackFinal(final_response, last_message, content) ==
    IF IsFinalAnswer(last_message) THEN content ELSE final_response

\* app.py:146 as it would be with `data["messages"][0]`.
OnNodeFirst(d, node_name, data) ==
    IF data.shape = "none"
    THEN [d EXCEPT !.raised = Some("argument of type 'NoneType' is not iterable")]
    ELSE IF HasMessages(data)
    THEN LET last_message == data.messages[1]
             content == _render_completed_message(last_message)
         IN [d EXCEPT !.modes_map.updates = Append(@, StepInfo(node_name, content)),
                      !.final_response = TrackFinal(@, last_message, content)]
    ELSE d

\* app.py:145-151, one (node_name, data) pair of an "updates" chunk.
OnNode(d, node_name, data) ==
    IF data.shape = "none"
    THEN [d EXCEPT !.raised = Some("argument of type 'NoneType' is not iterable")]
    ELSE IF HasMessages(data)
    THEN LET last_message == data.messages[Len(data.messages)]
             content == _render_completed_message(last_message)
         IN [d EXCEPT !.modes_map.updates = Append(@, StepInfo(node_name, content)),
                      !.final_response = TrackFinal(@, last_message, content)]
    ELSE d

\* app.py:144-151, the loop over chunk.items(); it stops at the first raise.
RECURSIVE OnUpdates(_, _)
OnUpdates(d, items) ==
    IF items = <<>> \/ d.raised # None THEN d
    ELSE OnUpdates(OnNode(d, items[1][1], items[1][2]), Tail(items))

\* app.py:154, one "custom" event.
OnCustom(d, ev) ==
    [d EXCEPT !.modes_map.custom = Append(@, StepInfo("", StrChunk(ev)))]

\* app.py:135-154, the body of the for loop for one event.
OnEvent(d, ev) ==
    IF ev.mode = "messages" THEN OnMessages(d, ev)
    ELSE IF ev.mode = "updates" THEN OnUpdates(d, ev.items)
    ELSE IF ev.mode = "custom" THEN OnCustom(d, ev)
    ELSE d

\* app.py:160 without the filter.
KeepAll(steps) == TRUE

\* app.py:160, `if steps` in the list comprehension.
KeepMode(steps) == steps # <<>>

\* app.py:157-161, modes_map turned into the list of StreamModeInfo.
RECURSIVE ModesFrom(_, _)
ModesFrom(modes_map, order) ==
    IF order = <<>> THEN <<>>
    ELSE (IF KeepMode(modes_map[order[1]])
          THEN <<StreamModeInfo(order[1], modes_map[order[1]])>>
          ELSE <<>>) \o ModesFrom(modes_map, Tail(order))

StreamModes(modes_map) == ModesFrom(modes_map, ModeOrder)

\* ------------------------------------------------ InvokeResponseHandler
\* The value agent.invoke returns: a dict with optional "output" and
\* "messages" keys, or (isdict FALSE) some other object whose str() is raw.
InvokeResult(isdict, has_output, output, has_messages, messages, raw) ==
    [isdict |-> isdict, has_output |-> has_output, output |-> output,
     has_messages |-> has_messages, messages |-> messages, raw |-> raw]

RECURSIVE JoinMessages(_)
JoinMessages(messages) ==
    IF messages = <<>> THEN ""
    ELSE IF Len(messages) = 1 THEN StrMessage(messages[1])
    ELSE StrMessage(messages[1]) \o ", " \o JoinMessages(Tail(messages))

\* str(result)
StrResult(result) ==
    IF ~result.isdict THEN result.raw
    ELSE "{"
         \o (IF result.has_output THEN "'output': '" \o result.output \o "'" ELSE "")
         \o (IF result.has_output /\ result.has_messages THEN ", " ELSE "")
         \o (IF result.has_messages
             THEN "'messages': [" \o JoinMessages(result.messages) \o "]" ELSE "")
         \o "}"

\* app.py:176 with the operands of `or` swapped.
ResponseTextMessagesFirst(result) ==
    IF result.isdict
    THEN IF result.has_messages /\ result.messages # <<>>
         THEN IF result.messages[Len(result.messages)].content # ""
              THEN result.messages[Len(result.messages)].content
              ELSE result.output
         ELSE StrResult(result)
    ELSE StrResult(result)

\* app.py:173-181.  The conditional expression binds weaker than `or`:
\* (output or messages[-1].content) if result.get("messages") else str(result)
ResponseText(result) ==
    IF result.isdict
    THEN IF result.has_messages /\ result.messages # <<>>
         THEN IF result.has_output /\ result.output # ""
              THEN result.output
              ELSE result.messages[Len(result.messages)].content
         ELSE StrResult(result)
    ELSE StrResult(result)

\* ------------------------------------------------------------ the inputs
Hel == TokenEv("pair", Token("chunk", "Hel", <<>>))
Lo == TokenEv("pair", Token("chunk", "lo", <<>>))
EmptyChunk == TokenEv("pair", Token("chunk", "", <<>>))
ToolCallChunk == TokenEv("pair", Token("chunk", "", <<"get_weather">>))
ToolToken == TokenEv("pair", Token("tool", "sunny", <<>>))
BadToken == TokenEv("bad", Token("chunk", "Hel", <<>>))

AnswerHello == <<"answer", Snapshot(TRUE, <<Msg("ai", "Hello!", <<>>)>>)>>
ModelHi == <<"model", Snapshot(TRUE, <<Msg("ai", "Hi", <<>>)>>)>>

\* The events one pull of agent.stream can yield: token events, step-update
\* events, custom events and one event of a mode without a branch. The set
\* is written out element by element so that it is one enumerated set.
Events ==
    { Hel, Lo, EmptyChunk, ToolCallChunk, ToolToken, BadToken,
      UpdatesEv(<<AnswerHello>>),
      UpdatesEv(<<ModelHi>>),
      UpdatesEv(<<<<"model", Snapshot(TRUE, <<Msg("ai", "", <<"get_weather">>)>>)>>>>),
      UpdatesEv(<<<<"tools", Snapshot(TRUE, <<Msg("ai", "Hi", <<>>),
                                               Msg("tool", "sunny", <<>>)>>)>>>>),
      UpdatesEv(<<<<"model", Snapshot(TRUE, <<Msg("human", "q", <<>>),
                                               Msg("ai", "", <<>>)>>)>>>>),
      UpdatesEv(<<<<"model", Snapshot(FALSE, <<>>)>>>>),
      UpdatesEv(<<<<"model", Snapshot(TRUE, <<>>)>>>>),
      UpdatesEv(<<<<"model", Snapshot(TRUE, <<Msg("human", "q", <<>>)>>)>>>>),
      UpdatesEv(<<ModelHi, AnswerHello>>),
      UpdatesEv(<<ModelHi, <<"tools", NoneSnapshot>>>>),
      CustomEv(TRUE, "Looking up data for city: SF"),
      CustomEv(FALSE, "progress"),
      OtherEv }

\* The events of each mode.
TokenEvents == {ev \in Events : ev.mode = "messages"}
UpdatesEvents == {ev \in Events : ev.mode = "updates"}
CustomEvents == {ev \in Events : ev.mode = "custom"}

\* The events of the concurrent specification.
ConcEvents == {Hel, UpdatesEv(<<AnswerHello>>)}

OutputOnly == InvokeResult(TRUE, TRUE, "42", FALSE, <<>>, "")
OutputAndMessages == InvokeResult(TRUE, TRUE, "42", TRUE, <<Msg("ai", "Hi", <<>>)>>, "")

\* The values agent.invoke can return.
InvokeResults ==
    { OutputOnly,
      OutputAndMessages,
      InvokeResult(TRUE, FALSE, "", TRUE,
                   <<Msg("human", "q", <<>>), Msg("ai", "Hi", <<>>)>>, ""),
      InvokeResult(TRUE, TRUE, "", TRUE, <<Msg("ai", "Hi", <<>>)>>, ""),
      InvokeResult(TRUE, TRUE, "42", TRUE, <<>>, ""),
      InvokeResult(TRUE, FALSE, "", TRUE, <<>>, ""),
      InvokeResult(TRUE, FALSE, "", FALSE, <<>>, ""),
      InvokeResult(FALSE, FALSE, "", FALSE, <<>>, "raw") }

ConcResults == {OutputAndMessages}

\* str(e) of what get_agent raises (app.py:73).
GetAgentErrors == {"ZHIPUAI_API_KEY environment variable not set"}

\* str(e) of what agent.stream / agent.invoke raise; an exception built
\* without arguments has the empty string as its str().
UpstreamErrors == {"", "upstream failed"}

ConcErrors == {"upstream failed"}

\* One event per branch of the for loop body (app.py:137-156): a kept
\* token, a token that does not unpack, a step-update with an answer, a
\* step-update whose node update is None, a custom notice, an unknown mode.
LiveEvents ==
    { Hel,
      BadToken,
      UpdatesEv(<<AnswerHello>>),
      UpdatesEv(<<ModelHi, <<"tools", NoneSnapshot>>>>),
      CustomEv(TRUE, "Looking up data for city: SF"),
      OtherEv }

\* The inputs a specification draws from: "all" is every event, result and
\* error text above, "few" the small sets of the interleaved
\* specifications, "live" one event per branch of the loop body.
EventsOf(inputs) ==
    CASE inputs = "all" -> Events
      [] inputs = "few" -> ConcEvents
      [] inputs = "live" -> LiveEvents

ResultsOf(inputs) == IF inputs = "few" THEN ConcResults ELSE InvokeResults

ErrorsOf(inputs) == IF inputs = "few" THEN ConcErrors ELSE UpstreamErrors

\* ------------------------------------------------------------- the state
Kinds == {"stream", "invoke"}

\* A handler object: its class and its identity.
Handler(kind, id) == [kind |-> kind, id |-> id]

VARIABLES
    response_handler,   \* global response_handler (app.py:221)
    query_processor,    \* global query_processor (app.py:222), a processor id
    processors,         \* processor id -> its self.response_handler
    spc,                \* position of each set_response_handler call
    sarg,               \* the handler each set_response_handler call was passed
    lastCompleted,      \* the set_response_handler call that returned last (0: none)
    pc,                 \* position of each request
    endpoint,           \* the entry point serving each request
    proc,               \* the processor whose process_query serves the request
    bound,              \* the handler that processor held when the request got it
    expect,             \* the last completed setter when a default request
                        \* started with no setter in progress
    handler,            \* self.response_handler as read at app.py:200
    events,             \* the events pulled from agent.stream so far
    pending,            \* how many events the stream of agent.stream still holds
    drain,              \* modes_map, final_response of the running handle_response
    invoked,            \* what agent.invoke returned
    caught,             \* str(e) of the exception caught at app.py:203
    result,             \* the QueryResponse returned
    messages,           \* the conversation built at app.py:195-197
    calls               \* how often the request called get_agent, agent.stream
                        \* and agent.invoke

globals == <<response_handler, query_processor, processors>>
setterVars == <<spc, sarg, lastCompleted>>
reqVars == <<pc, endpoint, proc, bound, expect, handler, events, pending, drain,
             invoked, caught, result, messages, calls>>
vars == <<response_handler, query_processor, processors, spc, sarg, lastCompleted,
          pc, endpoint, proc, bound, expect, handler, events, pending, drain,
          invoked, caught, result, messages, calls>>

\* app.py:221-222
Init ==
    /\ response_handler = Handler("stream", 0)
    /\ query_processor = 0
    /\ processors = (0 :> Handler("stream", 0))
    /\ spc = [s \in Setters |-> "idle"]
    /\ sarg = [s \in Setters |-> None]
    /\ lastCompleted = 0
    /\ pc = [r \in Requests |-> "idle"]
    /\ endpoint = [r \in Requests |-> "none"]
    /\ proc = [r \in Requests |-> None]
    /\ bound = [r \in Requests |-> None]
    /\ expect = [r \in Requests |-> None]
    /\ handler = [r \in Requests |-> None]
    /\ events = [r \in Requests |-> <<>>]
    /\ pending = [r \in Requests |-> 0]
    /\ drain = [r \in Requests |-> NewDrain]
    /\ invoked = [r \in Requests |-> None]
    /\ caught = [r \in Requests |-> None]
    /\ result = [r \in Requests |-> None]
    /\ messages = [r \in Requests |-> <<>>]
    /\ calls = [r \in Requests |-> [get_agent |-> 0, stream |-> 0, invoke |-> 0]]

\* -------------------------------------------------- set_response_handler
\* app.py:248, `response_handler = handler`.
StoreHandler(h) ==
    /\ response_handler' = h
    /\ UNCHANGED <<query_processor, processors>>

\* app.py:249 as it would be if the existing processor were rebound in place.
RebindProcessor(s, h) ==
    /\ processors' = [processors EXCEPT ![query_processor] = h]
    /\ UNCHANGED <<query_processor, response_handler>>

\* app.py:249 as it would be if it read the global instead of the parameter.
StoreProcessorFromGlobal(s, h) ==
    /\ processors' = processors @@ (s :> response_handler)
    /\ query_processor' = s
    /\ UNCHANGED response_handler

\* app.py:249, `query_processor = AgentQueryProcessor(handler)`: a new
\* processor object (app.py:189-190), then the store to the global.
StoreProcessor(s, h) ==
    /\ processors' = processors @@ (s :> h)
    /\ query_processor' = s
    /\ UNCHANGED response_handler

\* The class of the handler the s-th call passes: the calls alternate
\* between an InvokeResponseHandler and a StreamResponseHandler.
KindPassed(s) == IF s % 2 = 1 THEN "invoke" ELSE "stream"

\* The call and its first statement (app.py:245-248).
SetHandler(s) ==
    /\ spc[s] = "idle"
    /\ sarg' = [sarg EXCEPT ![s] = Some(Handler(KindPassed(s), s))]
    /\ StoreHandler(Handler(KindPassed(s), s))
    /\ spc' = [spc EXCEPT ![s] = "mid"]
    /\ UNCHANGED <<lastCompleted, reqVars>>

\* The second statement and the return (app.py:249).
SetProcessor(s) ==
    /\ spc[s] = "mid"
    /\ StoreProcessor(s, sarg[s][1])
    /\ spc' = [spc EXCEPT ![s] = "done"]
    /\ lastCompleted' = s
    /\ UNCHANGED <<sarg, reqVars>>

\* --------------------------------------------------------- entry points
Quiet == \A s \in Setters : spc[s] # "mid"

EnterWith(r, ep, p) ==
    /\ pc[r] = "idle"
    /\ pc' = [pc EXCEPT ![r] = "entered"]
    /\ endpoint' = [endpoint EXCEPT ![r] = ep]
    /\ proc' = [proc EXCEPT ![r] = Some(p)]
    /\ UNCHANGED <<setterVars, handler, events, pending, drain, invoked, caught, result,
                   messages, calls>>

\* app.py:226-228: the global query_processor is read once, then its
\* process_query runs.
query_agent(r) ==
    /\ EnterWith(r, "query_agent", query_processor)
    /\ bound' = [bound EXCEPT ![r] = Some(processors[query_processor])]
    /\ expect' = [expect EXCEPT ![r] =
                     IF Quiet /\ lastCompleted # 0 THEN Some(lastCompleted) ELSE None]
    /\ UNCHANGED globals

\* A forced entry point as it would be if it served the default processor.
ServeDefault(r, ep, kind) ==
    /\ EnterWith(r, ep, query_processor)
    /\ bound' = [bound EXCEPT ![r] = Some(processors[query_processor])]
    /\ UNCHANGED <<expect, globals>>

\* app.py:234 and app.py:241: a fresh handler of the given class and a fresh
\* processor bound to it, both local to the request.
ServeForced(r, ep, kind) ==
    /\ EnterWith(r, ep, 0 - r)
    /\ processors' = processors @@ ((0 - r) :> Handler(kind, 0 - r))
    /\ bound' = [bound EXCEPT ![r] = Some(Handler(kind, 0 - r))]
    /\ UNCHANGED <<expect, response_handler, query_processor>>

\* app.py:232-235
query_agent_invoke(r) == ServeForced(r, "query_agent_invoke", "invoke")

\* app.py:239-242
query_agent_stream(r) == ServeForced(r, "query_agent_stream", "stream")

\* -------------------------------------------------- AgentQueryProcessor
\* app.py:202 as it would be if an empty answer were reported as a failure.
SuccessUnlessEmpty(final_response, stream_modes) ==
    IF final_response = ""
    THEN QueryResponse("", <<>>, Some("no response"))
    ELSE QueryResponse(final_response, stream_modes, None)

\* app.py:202
Success(final_response, stream_modes) ==
    QueryResponse(final_response, stream_modes, None)

\* app.py:203-204: streamModes takes its default, the empty list.
Failure(e) == QueryResponse("", <<>>, Some(e))

Return(r, response) ==
    /\ result' = [result EXCEPT ![r] = Some(response)]
    /\ pc' = [pc EXCEPT ![r] = "done"]

\* The except clause of process_query (app.py:203-204).
Catch(r, e) ==
    /\ caught' = [caught EXCEPT ![r] = Some(e)]
    /\ Return(r, Failure(e))

\* The text of the r-th request's query: the requests alternate between
\* two questions.
QueryOf(r) == IF r % 2 = 1 THEN "What is the weather in SF?" ELSE "When is sunset in SF?"

\* app.py:195-197
Conversation(query) ==
    <<Msg("system", "You're a helpful assistant. Please answer questions by yourself or by the tool we provide to you.", <<>>),
      Msg("human", query, <<>>)>>

\* app.py:195-198: the conversation is built and get_agent is called.
CallGetAgent(r) ==
    /\ messages' = [messages EXCEPT ![r] = Conversation(QueryOf(r))]
    /\ calls' = [calls EXCEPT ![r].get_agent = @ + 1]

\* app.py:134, the one call of agent.stream.
CallStream(r) == calls' = [calls EXCEPT ![r].stream = @ + 1]

\* app.py:170 as it would be if the handler also streamed for its steps.
CallInvokeAndStream(r) ==
    calls' = [calls EXCEPT ![r].invoke = @ + 1, ![r].stream = @ + 1]

\* app.py:170, the one call of agent.invoke.
CallInvoke(r) == calls' = [calls EXCEPT ![r].invoke = @ + 1]

\* The frame holding modes_map and final_response of request r's
\* handle_response call as it would be if they were attributes of a shared
\* handler object.
SharedLocals(r) == 1

\* app.py:127-132: modes_map and final_response are locals of the call,
\* one frame per request.
Locals(r) == r

\* app.py:195-198, get_agent returns an agent.
GetAgent(r) ==
    /\ pc[r] = "entered"
    /\ pc' = [pc EXCEPT ![r] = "ready"]
    /\ CallGetAgent(r)
    /\ UNCHANGED <<globals, setterVars, endpoint, proc, bound, expect, handler,
                   events, pending, drain, invoked, caught, result>>

\* app.py:198 with app.py:72-73, get_agent raises.
GetAgentRaises(r) ==
    /\ pc[r] = "entered"
    /\ \E e \in GetAgentErrors : Catch(r, e)
    /\ CallGetAgent(r)
    /\ UNCHANGED <<globals, setterVars, endpoint, proc, bound, expect, handler,
                   events, pending, drain, invoked>>

\* app.py:200, self.response_handler of the processor serving the request.
SelfHandler(r) == processors[proc[r][1]]

\* app.py:200 with app.py:127-134: the stream handler is entered, its
\* buckets are created and agent.stream is called; the stream it returns is
\* a lazy finite sequence of at most Max events.
BeginStream(r, Max) ==
    /\ pc[r] = "ready"
    /\ SelfHandler(r).kind = "stream"
    /\ \E n \in 0..Max : pending' = [pending EXCEPT ![r] = n]
    /\ handler' = [handler EXCEPT ![r] = Some(SelfHandler(r))]
    /\ drain' = [drain EXCEPT ![Locals(r)] = NewDrain]
    /\ CallStream(r)
    /\ pc' = [pc EXCEPT ![r] = "draining"]
    /\ UNCHANGED <<globals, setterVars, endpoint, proc, bound, expect, events,
                   invoked, caught, result, messages>>

\* app.py:134-154, one iteration of the for loop: the next event is pulled
\* and handled; an exception of the loop body reaches app.py:203.
Pull(r, inputs) ==
    /\ pc[r] = "draining"
    /\ pending[r] > 0
    /\ pending' = [pending EXCEPT ![r] = @ - 1]
    /\ \E ev \in EventsOf(inputs) :
          LET d == OnEvent(drain[Locals(r)], ev) IN
          /\ events' = [events EXCEPT ![r] = Append(@, ev)]
          /\ drain' = [drain EXCEPT ![Locals(r)] = d]
          /\ IF d.raised # None
             THEN Catch(r, d.raised[1])
             ELSE UNCHANGED <<pc, caught, result>>
    /\ UNCHANGED <<globals, setterVars, endpoint, proc, bound, expect, handler,
                   invoked, messages, calls>>

\* app.py:134 as it would be if a failed pull were retried: the exception
\* is noted and the loop goes on.
PullRetries(r, inputs) ==
    /\ pc[r] = "draining"
    /\ \E e \in ErrorsOf(inputs) : caught' = [caught EXCEPT ![r] = Some(e)]
    /\ UNCHANGED <<globals, setterVars, pc, endpoint, proc, bound, expect, handler,
                   events, pending, drain, invoked, result, messages, calls>>

\* app.py:134, the pull itself raises (the assistant fails mid-stream).
PullRaises(r, inputs) ==
    /\ pc[r] = "draining"
    /\ \E e \in ErrorsOf(inputs) : Catch(r, e)
    /\ UNCHANGED <<globals, setterVars, endpoint, proc, bound, expect, handler,
                   events, pending, drain, invoked, messages, calls>>

\* app.py:134 and 156-163 with app.py:202: the stream is exhausted, the
\* for loop ends, the handler returns and process_query wraps the pair.
Exhausted(r) ==
    /\ pc[r] = "draining"
    /\ pending[r] = 0
    /\ Return(r, Success(drain[Locals(r)].final_response,
                          StreamModes(drain[Locals(r)].modes_map)))
    /\ UNCHANGED <<globals, setterVars, endpoint, proc, bound, expect, handler,
                   events, pending, drain, invoked, caught, messages, calls>>

\* app.py:200 with app.py:170-183 and app.py:202: the invoke handler runs.
Invoke(r, inputs) ==
    /\ pc[r] = "ready"
    /\ SelfHandler(r).kind = "invoke"
    /\ handler' = [handler EXCEPT ![r] = Some(SelfHandler(r))]
    /\ \E res \in ResultsOf(inputs) :
          /\ invoked' = [invoked EXCEPT ![r] = Some(res)]
          /\ Return(r, Success(ResponseText(res), <<>>))
    /\ CallInvoke(r)
    /\ UNCHANGED <<globals, setterVars, endpoint, proc, bound, expect, events, pending,
                   drain, caught, messages>>

\* app.py:170, agent.invoke raises.
InvokeRaises(r, inputs) ==
    /\ pc[r] = "ready"
    /\ SelfHandler(r).kind = "invoke"
    /\ handler' = [handler EXCEPT ![r] = Some(SelfHandler(r))]
    /\ \E e \in ErrorsOf(inputs) : Catch(r, e)
    /\ CallInvoke(r)
    /\ UNCHANGED <<globals, setterVars, endpoint, proc, bound, expect, events, pending,
                   drain, invoked, messages>>

\* ---------------------------------------------------- the specifications
\* One request, the full input alphabets, no set_response_handler call.
Next ==
    \/ query_agent(1)
    \/ query_agent_invoke(1)
    \/ query_agent_stream(1)
    \/ GetAgent(1)
    \/ GetAgentRaises(1)
    \/ BeginStream(1, MaxEvents)
    \/ Pull(1, "all")
    \/ PullRaises(1, "all")
    \/ Exhausted(1)
    \/ Invoke(1, "all")
    \/ InvokeRaises(1, "all")

Spec == Init /\ [][Next]_vars

\* Requests and set_response_handler calls interleaved statement by
\* statement, on a small input alphabet.
NextConc ==
    \/ \E s \in Setters : SetHandler(s)
    \/ \E s \in Setters : SetProcessor(s)
    \/ \E r \in ConcRequests : query_agent(r)
    \/ \E r \in ConcRequests : query_agent_invoke(r)
    \/ \E r \in ConcRequests : query_agent_stream(r)
    \/ \E r \in ConcRequests : GetAgent(r)
    \/ \E r \in ConcRequests : GetAgentRaises(r)
    \/ \E r \in ConcRequests : BeginStream(r, MaxConcEvents)
    \/ \E r \in ConcRequests : Pull(r, "few")
    \/ \E r \in ConcRequests : PullRaises(r, "few")
    \/ \E r \in ConcRequests : Exhausted(r)
    \/ \E r \in ConcRequests : Invoke(r, "few")
    \/ \E r \in ConcRequests : InvokeRaises(r, "few")

SpecConc == Init /\ [][NextConc]_vars

\* Several requests interleaved statement by statement, no
\* set_response_handler call, on the small input alphabet.
NextIso ==
    \/ \E r \in Requests : query_agent(r)
    \/ \E r \in Requests : query_agent_invoke(r)
    \/ \E r \in Requests : query_agent_stream(r)
    \/ \E r \in Requests : GetAgent(r)
    \/ \E r \in Requests : GetAgentRaises(r)
    \/ \E r \in Requests : BeginStream(r, MaxConcEvents)
    \/ \E r \in Requests : Pull(r, "few")
    \/ \E r \in Requests : PullRaises(r, "few")
    \/ \E r \in Requests : Exhausted(r)
    \/ \E r \in Requests : Invoke(r, "few")
    \/ \E r \in Requests : InvokeRaises(r, "few")

SpecIso == Init /\ [][NextIso]_vars

NextLive ==
    \/ query_agent(1)
    \/ query_agent_invoke(1)
    \/ query_agent_stream(1)
    \/ GetAgent(1)
    \/ GetAgentRaises(1)
    \/ BeginStream(1, MaxEvents)
    \/ Pull(1, "live")
    \/ PullRaises(1, "all")
    \/ Exhausted(1)
    \/ Invoke(1, "all")
    \/ InvokeRaises(1, "all")

\* One request with the for loop and the calls around it running to
\* completion: a step that can be taken is eventually taken.
SpecLive == Init /\ [][NextLive]_vars /\ WF_vars(NextLive)

\* ------------------------------------------------------------ the claims
Done(r) == pc[r] = "done" /\ result[r] # None
Succeeded(r) == Done(r) /\ caught[r] = None
StreamDone(r) == Succeeded(r) /\ handler[r] # None /\ handler[r][1].kind = "stream"

RECURSIVE Flatten(_)
\* The (node_name, data) pairs of the step-update events of a history, in
\* emission order.
Flatten(evs) ==
    IF evs = <<>> THEN <<>>
    ELSE (IF evs[1].mode = "updates" THEN evs[1].items ELSE <<>>) \o Flatten(Tail(evs))

\* A pair whose snapshot's last message is an assistant message without
\* tool calls.
Qualifies(item) ==
    /\ item[2].shape = "dict"
    /\ item[2].has_messages
    /\ item[2].messages # <<>>
    /\ item[2].messages[Len(item[2].messages)].type = "ai"
    /\ item[2].messages[Len(item[2].messages)].tool_calls = <<>>

Qualifying(evs) == SelectSeq(Flatten(evs), Qualifies)

LastMessage(item) == item[2].messages[Len(item[2].messages)]

\* C1: whenever get_agent or handle_response raised, at any point, the
\* request is answered with a QueryResponse whose error is non-empty, whose
\* response is empty and whose streamModes is empty.
C1_FailureReported ==
    \A r \in Requests :
        caught[r] # None =>
            /\ Done(r)
            /\ result[r][1].error # None
            /\ result[r][1].error[1] # ""
            /\ result[r][1].response = ""
            /\ result[r][1].streamModes = <<>>

\* C2: when the drained history holds at least one qualifying step-update
\* entry, the stream handler's final response is the content of the last
\* one in emission order, whatever else was emitted around it.
C2_LastWriteWins ==
    \A r \in Requests :
        (StreamDone(r) /\ Qualifying(events[r]) # <<>>) =>
            LET q == Qualifying(events[r]) IN
            result[r][1].response = LastMessage(q[Len(q)]).content

C2_Witness ==
    \E r \in Requests :
        /\ StreamDone(r)
        /\ Len(Qualifying(events[r])) >= 2
        /\ LastMessage(Qualifying(events[r])[1]).content
              # LastMessage(Qualifying(events[r])[Len(Qualifying(events[r]))]).content
        /\ Qualifying(events[r])[1][1]
              # Qualifying(events[r])[Len(Qualifying(events[r]))][1]
        /\ \E i \in 1..Len(events[r]) : events[r][i].mode = "messages"
        /\ events[r][Len(events[r])].mode = "custom"

\* C3: whenever the invoke result is a dict with a non-empty "output", the
\* response is that output and streamModes is empty, with or without a
\* message list.
C3_OutputUsed ==
    \A r \in Requests :
        (Succeeded(r) /\ invoked[r] # None /\ invoked[r][1].isdict
           /\ invoked[r][1].has_output /\ invoked[r][1].output # "") =>
            /\ result[r][1].response = invoked[r][1].output
            /\ result[r][1].streamModes = <<>>

\* C4: when the invoke result holds both a non-empty "output" and a
\* non-empty message list, the response is the output, not the last
\* message's content.
C4_OutputPreferred ==
    \A r \in Requests :
        (Succeeded(r) /\ invoked[r] # None /\ invoked[r][1].isdict
           /\ invoked[r][1].has_output /\ invoked[r][1].output # ""
           /\ invoked[r][1].has_messages /\ invoked[r][1].messages # <<>>) =>
            LET res == invoked[r][1] IN
            /\ result[r][1].response = res.output
            /\ res.messages[Len(res.messages)].content # res.output
                  => result[r][1].response # res.messages[Len(res.messages)].content

C4_Witness ==
    \E r \in Requests :
        /\ Succeeded(r)
        /\ invoked[r] = Some(OutputAndMessages)
        /\ result[r][1].response = "42"

\* C5: no StreamModeInfo of a returned QueryResponse has an empty steps
\* sequence, and a mode whose bucket stayed empty is not in the list.
C5_NoEmptyMode ==
    \A r \in Requests :
        Done(r) =>
            LET sm == result[r][1].streamModes IN
            /\ \A i \in 1..Len(sm) : sm[i].steps # <<>>
            /\ StreamDone(r) =>
                  \A m \in {"messages", "updates", "custom"} :
                      (\E i \in 1..Len(sm) : sm[i].stream_mode = m)
                          <=> drain[r].modes_map[m] # <<>>

C5_Witness ==
    \E r \in Requests :
        /\ StreamDone(r)
        /\ Len(events[r]) >= 2
        /\ drain[r].modes_map.messages = <<>>
        /\ drain[r].modes_map.custom # <<>>
        /\ Len(result[r][1].streamModes) = 1

\* The position of a mode in the fixed order token, step-update, custom.
Rank(m) == IF m = "messages" THEN 1 ELSE IF m = "updates" THEN 2 ELSE 3

\* C6: the modes of a returned streamModes list come in the order token,
\* step-update, custom, each at most once, however the events interleaved.
C6_FixedModeOrder ==
    \A r \in Requests :
        Done(r) =>
            LET sm == result[r][1].streamModes IN
            /\ \A i \in 1..Len(sm) : sm[i].stream_mode \in {"messages", "updates", "custom"}
            /\ \A i, j \in 1..Len(sm) :
                  i < j => Rank(sm[i].stream_mode) < Rank(sm[j].stream_mode)

C6_Witness ==
    \E r \in Requests :
        /\ StreamDone(r)
        /\ Len(result[r][1].streamModes) = 3
        /\ events[r][1].mode = "custom"
        /\ events[r][Len(events[r])].mode = "messages"

\* The token events of a history whose chunk has text or tool-call fragments.
NonEmptyChunks(evs) ==
    SelectSeq(evs, LAMBDA ev : /\ ev.mode = "messages"
                               /\ ev.shape = "pair"
                               /\ (ev.token.text # "" \/ ev.token.tool_call_chunks # <<>>))

\* C7: a chunk with empty text and no tool-call fragments renders to the
\* empty string and adds no step: no step of the token bucket, during the
\* drain or in the returned list, has an empty message, and the bucket holds
\* no more steps than non-empty chunks were pulled.
C7_NoEmptyTokenStep ==
    /\ _render_message_chunk(Token("chunk", "", <<>>)) = ""
    /\ \A r \in Requests :
          /\ \A i \in 1..Len(drain[r].modes_map.messages) :
                drain[r].modes_map.messages[i].message # ""
          /\ Len(drain[r].modes_map.messages) <= Len(NonEmptyChunks(events[r]))
          /\ Done(r) =>
                \A i \in 1..Len(result[r][1].streamModes) :
                    result[r][1].streamModes[i].stream_mode = "messages" =>
                        \A k \in 1..Len(result[r][1].streamModes[i].steps) :
                            result[r][1].streamModes[i].steps[k].message # ""

C7_Witness ==
    \E r \in Requests :
        /\ StreamDone(r)
        /\ events[r] = <<Hel, EmptyChunk, Lo>>
        /\ Len(drain[r].modes_map.messages) = 2

\* C8: a request of the primary entry point uses, and completes with, the
\* strategy of the binding it read, whatever set_response_handler does
\* between the read and the end of the request.
C8_ReadOnce ==
    \A r \in Requests :
        endpoint[r] = "query_agent" =>
            /\ handler[r] # None => handler[r] = bound[r]
            /\ pc[r] = "draining" => bound[r][1].kind = "stream"
            /\ Succeeded(r) => (invoked[r] # None <=> bound[r][1].kind = "invoke")

C8_Witness ==
    \E r \in Requests :
        /\ endpoint[r] = "query_agent"
        /\ Succeeded(r)
        /\ handler[r] = bound[r]
        /\ events[r] # <<>>
        /\ query_processor # proc[r][1]
        /\ processors[query_processor].kind = "invoke"
        /\ \E s \in Setters : spc[s] = "mid"

\* C9: a request of the primary entry point that starts when every
\* set_response_handler call begun so far has completed uses the strategy
\* passed by the call that completed last.
C9_LastSetterWins ==
    \A r \in Requests :
        expect[r] # None =>
            /\ bound[r] = sarg[expect[r][1]]
            /\ handler[r] # None => handler[r] = sarg[expect[r][1]]

C9_Witness ==
    \E r \in Requests :
        /\ expect[r] # None
        /\ handler[r] = sarg[expect[r][1]]
        /\ Done(r)
        /\ \A s \in Setters : spc[s] = "done"
        /\ response_handler # sarg[expect[r][1]][1]

ForcedKind(r) ==
    IF endpoint[r] = "query_agent_invoke" THEN "invoke" ELSE "stream"

Forced(r) == endpoint[r] \in {"query_agent_invoke", "query_agent_stream"}

\* C10: a forced entry point runs its own strategy (invoke, or stream)
\* whatever set_response_handler did or does, and no step of serving it
\* changes response_handler, query_processor or the default processor's
\* handler.
C10_ForcedEndpoints ==
    /\ [](\A r \in Requests :
             Forced(r) =>
                /\ bound[r][1].kind = ForcedKind(r)
                /\ handler[r] # None => handler[r][1].kind = ForcedKind(r)
                /\ pc[r] = "draining" => ForcedKind(r) = "stream"
                /\ Succeeded(r) => (invoked[r] # None <=> ForcedKind(r) = "invoke"))
    /\ [][\A r \in Requests :
             (Forced(r)' /\ pc'[r] # pc[r]) =>
                /\ response_handler' = response_handler
                /\ query_processor' = query_processor
                /\ processors'[query_processor] = processors[query_processor]]_vars

C10_Witness ==
    \E r \in Requests :
        /\ endpoint[r] = "query_agent_stream"
        /\ Succeeded(r)
        /\ events[r] # <<>>
        /\ response_handler.kind = "invoke"
        /\ processors[query_processor].kind = "invoke"

\* An event of an unexpected internal shape: a token payload that is not a
\* pair, a step-update payload with a snapshot that is no container, or an
\* event of an unknown mode.
Unexpected(ev) ==
    \/ ev.mode = "messages" /\ ev.shape # "pair"
    \/ ev.mode = "updates" /\ \E i \in 1..Len(ev.items) : ev.items[i][2].shape # "dict"
    \/ ev.mode \notin {"messages", "updates", "custom"}

\* C11: an event of an unexpected shape is absorbed by the strategy: the
\* loop body never raises, and a request whose assistant did not fail is
\* answered without an error.
C11_ShapeAbsorbed ==
    \A r \in Requests :
        (\E i \in 1..Len(events[r]) : Unexpected(events[r][i])) =>
            /\ drain[r].raised = None
            /\ (Done(r) /\ caught[r] # None) => caught[r][1] \in UpstreamErrors
            /\ (Done(r) /\ caught[r] = None) => result[r][1].error = None

RECURSIVE PairSteps(_)
\* The steps the pairs of one step-update payload produce, in payload order.
PairSteps(items) ==
    IF items = <<>> THEN <<>>
    ELSE (IF items[1][2].has_messages /\ items[1][2].messages # <<>>
          THEN <<[step |-> items[1][1],
                  message |-> _render_completed_message(LastMessage(items[1]))]>>
          ELSE <<>>) \o PairSteps(Tail(items))

\* The steps one event produces in the bucket of mode m.
StepsOf(ev, m) ==
    IF ev.mode # m THEN <<>>
    ELSE IF m = "messages"
    THEN IF ev.shape = "pair" /\ ev.token.type = "chunk"
            /\ _render_message_chunk(ev.token) # ""
         THEN <<[step |-> "Token", message |-> _render_message_chunk(ev.token)]>>
         ELSE <<>>
    ELSE IF m = "updates" THEN PairSteps(ev.items)
    ELSE <<[step |-> "", message |-> StrChunk(ev)]>>

RECURSIVE StepsOfAll(_, _)
\* The steps of mode m a history produces, in emission order.
StepsOfAll(evs, m) ==
    IF evs = <<>> THEN <<>> ELSE StepsOf(evs[1], m) \o StepsOfAll(Tail(evs), m)

\* C12: while the loop body has not raised, each bucket holds exactly the
\* steps of its mode's events in emission order, and so does the returned
\* list; the history token "Hel", token "lo", step-update answer "Hello!"
\* yields response "Hello!" with the two token steps and the one answer step.
C12_EmissionOrder ==
    \A r \in Requests :
        /\ (pc[r] \in {"draining", "done"} /\ handler[r] # None
              /\ handler[r][1].kind = "stream" /\ drain[r].raised = None) =>
              \A m \in {"messages", "updates", "custom"} :
                  /\ drain[r].modes_map[m] = StepsOfAll(events[r], m)
                  /\ StreamDone(r) =>
                        \A i \in 1..Len(result[r][1].streamModes) :
                            result[r][1].streamModes[i].stream_mode = m =>
                                result[r][1].streamModes[i].steps = StepsOfAll(events[r], m)
        /\ (StreamDone(r) /\ events[r] = <<Hel, Lo, UpdatesEv(<<AnswerHello>>)>>) =>
              result[r][1] =
                  [response |-> "Hello!",
                   streamModes |->
                      <<[stream_mode |-> "messages",
                         steps |-> <<[step |-> "Token", message |-> "Hel"],
                                     [step |-> "Token", message |-> "lo"]>>],
                        [stream_mode |-> "updates",
                         steps |-> <<[step |-> "answer", message |-> "Hello!"]>>]>>,
                   error |-> None]

C12_Witness ==
    \E r \in Requests :
        /\ StreamDone(r)
        /\ events[r] = <<Hel, Lo, UpdatesEv(<<AnswerHello>>)>>
        /\ result[r][1].response = "Hello!"
        /\ Len(result[r][1].streamModes) = 2

\* The non-empty step lists of a history, in the order token, step-update,
\* custom.
KeptSteps(evs) ==
    SelectSeq(<<[stream_mode |-> "messages", steps |-> StepsOfAll(evs, "messages")],
                [stream_mode |-> "updates", steps |-> StepsOfAll(evs, "updates")],
                [stream_mode |-> "custom", steps |-> StepsOfAll(evs, "custom")]>>,
              LAMBDA sm : sm.steps # <<>>)

\* C13: a request whose strategy did not raise is answered without an
\* error, with the response and the streamModes of the strategy; a drained
\* stream without a qualifying message gives response "" with the steps kept.
C13_SuccessWrapped ==
    \A r \in Requests :
        (Done(r) /\ caught[r] = None) =>
            /\ result[r][1].error = None
            /\ handler[r] # None
            /\ handler[r][1].kind = "stream" =>
                  /\ result[r][1].response = drain[r].final_response
                  /\ result[r][1].streamModes = KeptSteps(events[r])
                  /\ Qualifying(events[r]) = <<>> => result[r][1].response = ""
            /\ handler[r][1].kind = "invoke" =>
                  /\ invoked[r] # None
                  /\ result[r][1].response = ResponseText(invoked[r][1])
                  /\ result[r][1].streamModes = <<>>

C13_Witness ==
    \E r \in Requests :
        /\ StreamDone(r)
        /\ Qualifying(events[r]) = <<>>
        /\ result[r][1].response = ""
        /\ result[r][1].error = None
        /\ Len(result[r][1].streamModes) = 2
        /\ drain[r].modes_map.updates # <<>>

RECURSIVE Drained(_, _)
\* The locals of a handle_response call that ran alone over a history.
Drained(d, evs) ==
    IF evs = <<>> \/ d.raised # None THEN d
    ELSE Drained(OnEvent(d, evs[1]), Tail(evs))

\* The QueryResponse of request r had it run alone with the same strategy,
\* the same events, the same invoke result and the same failure.
Alone(r) ==
    IF caught[r] # None
    THEN [response |-> "", streamModes |-> <<>>, error |-> caught[r]]
    ELSE IF handler[r][1].kind = "stream"
    THEN [response |-> Drained(NewDrain, events[r]).final_response,
          streamModes |-> StreamModes(Drained(NewDrain, events[r]).modes_map),
          error |-> None]
    ELSE [response |-> ResponseText(invoked[r][1]), streamModes |-> <<>>,
          error |-> None]

\* C14: under every interleaving of the requests, each request has its own
\* conversation of two messages (the system instruction, then its own
\* query), has called get_agent exactly once, drains into its own buckets
\* and answer candidate, and returns what it would return running alone.
C14_Isolated ==
    \A r \in Requests :
        /\ pc[r] \in {"ready", "draining", "done"} =>
              /\ Len(messages[r]) = 2
              /\ messages[r][1].type = "system"
              /\ messages[r][2] = [type |-> "human", content |-> QueryOf(r),
                                   tool_calls |-> <<>>]
              /\ calls[r].get_agent = 1
        /\ pc[r] = "draining" => drain[r] = Drained(NewDrain, events[r])
        /\ Done(r) => result[r][1] = Alone(r)

C14_Witness ==
    \E r1, r2 \in Requests :
        /\ r1 # r2
        /\ StreamDone(r1)
        /\ result[r1][1].response = "Hello!"
        /\ Len(result[r1][1].streamModes) = 1
        /\ pc[r2] = "draining"
        /\ events[r2] = <<Hel>>
        /\ messages[r1] # messages[r2]

\* The event request r pulled in the step, if it pulled one.
Pulled(r) == events'[r][Len(events'[r])]
PullsEvent(r) == Len(events'[r]) = Len(events[r]) + 1

\* C15, as claimed: the token bucket holds one step per token event with a
\* non-empty render, whatever kind of message the event carries.
C15_AnyTokenKind ==
    \A r \in Requests :
        drain[r].raised = None =>
            Len(drain[r].modes_map.messages) = Len(NonEmptyChunks(events[r]))

\* The token events that carry an AIMessageChunk with a non-empty render.
RenderedChunks(evs) ==
    SelectSeq(evs, LAMBDA ev : /\ ev.mode = "messages"
                               /\ ev.shape = "pair"
                               /\ ev.token.type = "chunk"
                               /\ _render_message_chunk(ev.token) # "")

\* C15, amended: a token event carrying an AIMessageChunk with a non-empty
\* render appends exactly one StepInfo("Token", render); a token event
\* carrying any other message object, or an empty render, appends nothing;
\* so the token steps are as many as the AIMessageChunk events with a
\* non-empty render.
C15_ChunkTokens ==
    /\ [](\A r \in Requests :
             Len(drain[r].modes_map.messages) = Len(RenderedChunks(events[r])))
    /\ [][\A r \in Requests :
             (PullsEvent(r) /\ Pulled(r).mode = "messages" /\ Pulled(r).shape = "pair") =>
                 IF Pulled(r).token.type = "chunk"
                    /\ _render_message_chunk(Pulled(r).token) # ""
                 THEN drain'[r].modes_map.messages =
                         Append(drain[r].modes_map.messages,
                                [step |-> "Token",
                                 message |-> _render_message_chunk(Pulled(r).token)])
                 ELSE drain'[r].modes_map.messages = drain[r].modes_map.messages]_vars

C15_Witness ==
    \E r \in Requests :
        /\ StreamDone(r)
        /\ events[r] = <<Hel, ToolToken, ToolCallChunk>>
        /\ Len(drain[r].modes_map.messages) = 2

\* A pair of a step-update payload whose snapshot has a non-empty message list.
WithMessages(item) == item[2].has_messages /\ item[2].messages # <<>>

\* C16: one step-update event (whose snapshots are all mappings) appends,
\* in payload order, one StepInfo(stepName, render of the LAST message) for
\* exactly the pairs with a non-empty message list; when no pair has one,
\* the bucket and the answer candidate stay as they were.
C16_StepUpdates ==
    [][\A r \in Requests :
          (PullsEvent(r) /\ Pulled(r).mode = "updates"
             /\ \A i \in 1..Len(Pulled(r).items) : Pulled(r).items[i][2].shape = "dict") =>
              LET items == Pulled(r).items
                  kept == SelectSeq(items, WithMessages)
              IN /\ Len(drain'[r].modes_map.updates)
                       = Len(drain[r].modes_map.updates) + Len(kept)
                 /\ \A k \in 1..Len(kept) :
                       drain'[r].modes_map.updates[Len(drain[r].modes_map.updates) + k]
                          = [step |-> kept[k][1],
                             message |-> _render_completed_message(
                                            kept[k][2].messages[Len(kept[k][2].messages)])]
                 /\ \A k \in 1..Len(drain[r].modes_map.updates) :
                       drain'[r].modes_map.updates[k] = drain[r].modes_map.updates[k]
                 /\ kept = <<>> =>
                       drain'[r].final_response = drain[r].final_response]_vars

C16_Witness ==
    \E r \in Requests :
        /\ StreamDone(r)
        /\ Len(events[r]) = 3
        /\ events[r][1] = UpdatesEv(<<ModelHi, AnswerHello>>)
        /\ events[r][2].mode = "updates"
        /\ Len(events[r][2].items[1][2].messages) = 2
        /\ events[r][2].items[1][2].messages[2].type = "tool"
        /\ events[r][3].mode = "updates"
        /\ ~events[r][3].items[1][2].has_messages
        /\ Len(drain[r].modes_map.updates) = 3
        /\ drain[r].final_response = "Hello!"

\* C17: a request served by the invoke handler has called agent.invoke
\* exactly once and agent.stream never, has pulled no event, and whatever
\* the shape of the result its streamModes is empty.
C17_InvokeOnce ==
    \A r \in Requests :
        (handler[r] # None /\ handler[r][1].kind = "invoke") =>
            /\ calls[r].invoke = 1
            /\ calls[r].stream = 0
            /\ events[r] = <<>>
            /\ Done(r)
            /\ result[r][1].streamModes = <<>>

C17_Witness ==
    \E r \in Requests :
        /\ Succeeded(r)
        /\ handler[r][1].kind = "invoke"
        /\ invoked[r] # None
        /\ ~invoked[r][1].isdict
        /\ result[r][1].response = "raw"
        /\ calls[r].invoke = 1

\* C18: a drain always ends; it ends normally only when the stream holds
\* no further event and agent.stream was called once; every pull takes
\* exactly one event off the stream and appends it to the history; and
\* once an exception was caught no further event is consumed and no call
\* is made.
C18_DrainTerminates ==
    /\ \A r \in Requests : (pc[r] = "draining") ~> (pc[r] = "done")
    /\ [](\A r \in Requests :
             /\ calls[r].stream <= 1
             /\ StreamDone(r) => (pending[r] = 0 /\ calls[r].stream = 1)
             /\ caught[r] # None => pc[r] = "done")
    /\ [][\A r \in Requests :
             /\ pc[r] = "draining" =>
                   /\ Len(events'[r]) + pending'[r] = Len(events[r]) + pending[r]
                   /\ Len(events'[r]) \in {Len(events[r]), Len(events[r]) + 1}
                   /\ SubSeq(events'[r], 1, Len(events[r])) = events[r]
             /\ caught[r] # None =>
                   /\ events'[r] = events[r]
                   /\ pending'[r] = pending[r]
                   /\ calls'[r] = calls[r]
                   /\ result'[r] = result[r]]_vars

C18_Witness ==
    \E r \in Requests :
        /\ Done(r)
        /\ caught[r] # None
        /\ drain[r].raised = None
        /\ Len(events[r]) = 2
        /\ pending[r] > 0
        /\ calls[r].stream = 1

\* C19: whenever no set_response_handler call is in progress, the global
\* response_handler is the handler of the processor query_processor names.
C19_BindingConsistent ==
    Quiet => response_handler = processors[query_processor]

\* C20: throughout the drain the answer candidate is "" or the message of
\* a step already in the step-update bucket, and an event that is a token,
\* a custom notice, of an unknown mode, or a step-update without a
\* qualifying pair leaves the candidate as it was.
C20_CandidateFromBucket ==
    /\ [](\A r \in Requests :
             \/ drain[r].final_response = ""
             \/ \E i \in 1..Len(drain[r].modes_map.updates) :
                   drain[r].modes_map.updates[i].message = drain[r].final_response)
    /\ [][\A r \in Requests :
             (PullsEvent(r)
                /\ \/ Pulled(r).mode # "updates"
                   \/ \A i \in 1..Len(Pulled(r).items) : ~Qualifies(Pulled(r).items[i])) =>
                 drain'[r].final_response = drain[r].final_response]_vars

C20_Witness ==
    \E r \in Requests :
        /\ pc[r] = "draining"
        /\ Len(events[r]) = 3
        /\ events[r][1] = UpdatesEv(<<AnswerHello>>)
        /\ events[r][2].mode = "updates"
        /\ events[r][2].items[1][2].messages # <<>>
        /\ LastMessage(events[r][2].items[1]).tool_calls # <<>>
        /\ events[r][3].mode = "custom"
        /\ drain[r].final_response = "Hello!"
        /\ Len(drain[r].modes_map.updates) = 2

====
